---- MODULE Spec2Model ----
(***************************************************************************)
(* django-taggit (multi-site fork): tag identity under multi-tenancy.      *)
(*                                                                         *)
(* State: the Tag table (pk -> name, slug, namespace, sites), the          *)
(* TaggedItem table (tag pk, tagged object), the pk sequence, the          *)
(* programmatic writers that run TagBase.save() without a slug, and the    *)
(* one admin request that is in flight (TagAdmin's hooks).                 *)
(*                                                                         *)
(* Names and slugs are sequences of one-character strings, so that         *)
(* slugify is computed character by character as the code computes it;     *)
(* the string "e-acute" stands for the one non-ASCII character U+00E9.     *)
(***************************************************************************)
EXTENDS Integers, Sequences, FiniteSets, TLC

(* ------------------------------------------------------------------ *)
(* Bounds of the model                                                 *)
(* ------------------------------------------------------------------ *)

\* number of programmatic writers (each runs TagBase.save() once)
NumWriters == 2

\* the admin creates rows (adds and splits) only while the next pk is at most MaxId
MaxId == 2

\* associations the environment may create by tagging objects
MaxItems == 2

\* insert attempts of one save() the model follows (the loop itself has no cap)
MaxTries == 5

(* failed insert attempts after which the retry loop is claimed to stop; *)
(* TagBase.save has no such bound                                        *)
RetryCap == 3

Writers == 1..NumWriters

\* sites (tenants) a tag can be put on; tagged objects may also be on site "C"
Tenants == {"A", "B"}

(* Tagged objects.  ObjSites is the object's own site membership; an     *)
(* object of a kind without a `sites` attribute has HasSites = FALSE.    *)
Objects == {"oA", "oAC", "oNone", "oPlain"}

HasSites(o) == o # "oPlain"

ObjSites(o) ==
    CASE o = "oA"    -> {"A"}
      [] o = "oAC"   -> {"A", "C"}
      [] o = "oNone" -> {}
      [] OTHER       -> {}

\* names given to TagBase.save() by the programmatic writers
WriterNames == { <<"R","e","d">>, <<"r","e-acute","d","!">> }

\* names and slugs typed into the admin form
FormNames == { <<"R","e","d">>, <<"a",":","b">> }

FormSlugs == { <<"r","e","d">>, <<"r","e","d","_","1">> }

(* ------------------------------------------------------------------ *)
(* slugify                                                             *)
(* ------------------------------------------------------------------ *)

UpperCase == <<"A","B","C","D","E","F","G","H","I","J","K","L","M",
               "N","O","P","Q","R","S","T","U","V","W","X","Y","Z">>

LowerCase == <<"a","b","c","d","e","f","g","h","i","j","k","l","m",
               "n","o","p","q","r","s","t","u","v","w","x","y","z">>

DigitChars == <<"0","1","2","3","4","5","6","7","8","9">>

Range(s) == { s[k] : k \in 1..Len(s) }

IsSpace(c) == c \in {" ", "\t"}

\* \w of the regular expression: letters, digits and the underscore
IsWord(c) == c \in Range(UpperCase) \cup Range(LowerCase) \cup Range(DigitChars) \cup {"_"}

\* unicodedata.normalize('NFKD', c).encode('ascii', 'ignore') of one character
AsciiFold(c) ==
    IF c = "e-acute" THEN <<"e">>
    ELSE IF IsWord(c) \/ IsSpace(c) \/ c \in {"-", "!", ":"} THEN <<c>>
    ELSE <<>>

RECURSIVE Normalize(_)
Normalize(s) == IF s = <<>> THEN <<>> ELSE AsciiFold(Head(s)) \o Normalize(Tail(s))

\* re.sub('[^\w\s-]', '', value)
RECURSIVE StripSpecial(_)
StripSpecial(s) ==
    IF s = <<>> THEN <<>>
    ELSE IF IsWord(Head(s)) \/ IsSpace(Head(s)) \/ Head(s) = "-"
         THEN <<Head(s)>> \o StripSpecial(Tail(s))
         ELSE StripSpecial(Tail(s))

RECURSIVE LStrip(_)
LStrip(s) == IF s # <<>> /\ IsSpace(Head(s)) THEN LStrip(Tail(s)) ELSE s

RECURSIVE RStrip(_)
RStrip(s) == IF s # <<>> /\ IsSpace(s[Len(s)]) THEN RStrip(SubSeq(s, 1, Len(s) - 1)) ELSE s

\* str.strip()
Strip(s) == RStrip(LStrip(s))

LowerChar(c) ==
    IF \E k \in 1..Len(UpperCase) : UpperCase[k] = c
    THEN LowerCase[CHOOSE k \in 1..Len(UpperCase) : UpperCase[k] = c]
    ELSE c

\* str.lower()
RECURSIVE Lower(_)
Lower(s) == IF s = <<>> THEN <<>> ELSE <<LowerChar(Head(s))>> \o Lower(Tail(s))

\* re.sub('[-\s]+', '-', value): each run of hyphens and spaces becomes one hyphen
RECURSIVE Hyphenate(_, _)
Hyphenate(s, inRun) ==
    IF s = <<>> THEN <<>>
    ELSE IF IsSpace(Head(s)) \/ Head(s) = "-"
         THEN (IF inRun THEN <<>> ELSE <<"-">>) \o Hyphenate(Tail(s), TRUE)
         ELSE <<Head(s)>> \o Hyphenate(Tail(s), FALSE)

(* django.template.defaultfilters.slugify: normalize to ASCII, drop the  *)
(* characters that are not word characters, spaces or hyphens, strip,    *)
(* lower, and turn each run of spaces and hyphens into one hyphen.  Each *)
(* stage is applied to the value of the stage before it.                 *)
default_slugify(tag) ==
    CHOOSE slug \in
        { Hyphenate(lowered, FALSE) : lowered \in
            { Lower(stripped) : stripped \in
                { Strip(kept) : kept \in
                    { StripSpecial(ascii) : ascii \in { Normalize(tag) } } } } } : TRUE

\* "%d" % i for i >= 0
RECURSIVE Decimal(_)
Decimal(i) == IF i < 10 THEN <<DigitChars[i + 1]>>
              ELSE Decimal(i \div 10) \o <<DigitChars[(i % 10) + 1]>>

(* TagBase.slugify(tag, i=None).  The counter is <<>> for None and <<i>>  *)
(* for the integer i.                                                     *)
slugify(tag, i) ==
    IF i = <<>> THEN default_slugify(tag)
    ELSE default_slugify(tag) \o <<"_">> \o Decimal(i[1])

(* ------------------------------------------------------------------ *)
(* The Tag and TaggedItem tables                                       *)
(* ------------------------------------------------------------------ *)

\* index of the first ":" of a name, 0 when there is none
ColonAt(name) ==
    IF \E k \in 1..Len(name) : name[k] = ":"
    THEN CHOOSE k \in 1..Len(name) : name[k] = ":" /\ \A j \in 1..(k - 1) : name[j] # ":"
    ELSE 0

\* NamespaceOf that keeps the ":" at the end of the namespace
NamespaceOfWithColon(name) ==
    IF ColonAt(name) = 0 THEN <<>> ELSE SubSeq(name, 1, ColonAt(name))

\* Tag.save: namespace = name.partition(":")[0] if there is a ":", else u''
NamespaceOf(name) == IF ColonAt(name) = 0 THEN <<>> ELSE SubSeq(name, 1, ColonAt(name) - 1)

\* strip_namespace: name.partition(":")[2] if there is a ":", else name
strip_namespace(name) ==
    IF ColonAt(name) = 0 THEN name ELSE SubSeq(name, ColonAt(name) + 1, Len(name))

\* a Tag row as Tag.save() writes it
TagRow(name, slug, sites) ==
    [name |-> name, slug |-> slug, namespace |-> NamespaceOf(name), sites |-> sites]

\* SlugFree without the constraint: every slug is accepted
SlugFreeUnchecked(T, slug, self) == TRUE

\* the unique=True constraint on slug: no row other than `self` holds `slug`
SlugFree(T, slug, self) == \A t \in DOMAIN T : t = self \/ T[t].slug # slug

\* a table with row pk written (inserted or replaced)
WithRow(T, pk, row) == [t \in DOMAIN T \cup {pk} |-> IF t = pk THEN row ELSE T[t]]

\* a table without row pk
WithoutRow(T, pk) == [t \in DOMAIN T \ {pk} |-> T[t]]

\* tag.taggit_taggeditem_items.all()
ItemsOf(I, pk) == { it \in I : it[1] = pk }

(* The model class of a tagged object (its content type): the objects   *)
(* with a `sites` attribute are of one class, the others of another.     *)
KindOf(o) == IF HasSites(o) THEN "sited" ELSE "plain"

(* GenericTaggedItemBase.tags_for(model, instance): the tags joined with *)
(* the items of content type `model` (and of object `instance`, unless   *)
(* it is "none"), distinct.  The query goes through Tag.objects, the     *)
(* plain manager.                                                        *)
tags_for(T, I, model, instance) ==
    LET rows == { it \in I : /\ it[1] \in DOMAIN T
                             /\ KindOf(it[2]) = model
                             /\ instance = "none" \/ it[2] = instance }
    IN  { row[1] : row \in rows }

VARIABLES
    tags,      \* Tag table: pk -> [name, slug, namespace, sites]
    items,     \* TaggedItem table: set of <<tag pk, object>>
    nextId,    \* next primary key of the Tag table
    pc,        \* writer -> "idle", "try", "done": position in TagBase.save
    wname,     \* writer -> self.name
    wslug,     \* writer -> self.slug
    wi,        \* writer -> the loop counter i of TagBase.save
    wpk,       \* writer -> self.pk once saved, 0 before
    req        \* the admin request in flight, or the last one finished

vars == <<tags, items, nextId, pc, wname, wslug, wi, wpk, req>>

dbvars == <<tags, items, nextId>>

writervars == <<pc, wname, wslug, wi, wpk>>

(* ------------------------------------------------------------------ *)
(* TagBase.save() without pk and without slug: the retry loop          *)
(* ------------------------------------------------------------------ *)

\* RetrySlug that forgets the counter: the same slug is tried again
RetrySlugNoCounter(name, i) == slugify(name, <<>>)

\* RetrySlug that counts one too far: base, base_2, base_3, ...
RetrySlugOffByOne(name, i) == slugify(name, <<i + 1>>)

\* self.slug = self.slugify(self.name, i) after a failed insert
RetrySlug(name, i) == slugify(name, <<i>>)

(* A writer calls save() on a fresh Tag(name=n): pk and slug are unset,  *)
(* so the first branch is taken; slug = slugify(name) and i = 0.         *)
StartSave(w, n) ==
    /\ pc[w] = "idle"
    /\ pc' = [pc EXCEPT ![w] = "try"]
    /\ wname' = [wname EXCEPT ![w] = n]
    /\ wslug' = [wslug EXCEPT ![w] = slugify(n, <<>>)]
    /\ wi' = [wi EXCEPT ![w] = 0]
    /\ UNCHANGED <<tags, items, nextId, wpk, req>>

(* One turn of `while True`: i += 1, then the insert inside a savepoint.  *)
(* The insert is atomic against the unique constraint on slug.  It        *)
(* either stores the row (the tag has no sites yet: save() sets none)    *)
(* and returns, or raises IntegrityError, which rolls the savepoint      *)
(* back and recomputes the slug with the counter.                        *)
TrySave(w) ==
    /\ pc[w] = "try"
    /\ wi[w] < MaxTries
    /\ wi' = [wi EXCEPT ![w] = wi[w] + 1]
    /\ IF SlugFree(tags, wslug[w], 0)
       THEN /\ tags' = WithRow(tags, nextId, TagRow(wname[w], wslug[w], {}))
            /\ nextId' = nextId + 1
            /\ wpk' = [wpk EXCEPT ![w] = nextId]
            /\ pc' = [pc EXCEPT ![w] = "done"]
            /\ UNCHANGED wslug
       ELSE /\ wslug' = [wslug EXCEPT ![w] = RetrySlug(wname[w], wi[w] + 1)]
            /\ UNCHANGED <<tags, nextId, wpk, pc>>
    /\ UNCHANGED <<wname, items, req>>

\* a writer starts only when no other writer is inside save()
StartSaveAlone(w, n) ==
    /\ \A v \in Writers : pc[v] # "try"
    /\ StartSave(w, n)

(* ------------------------------------------------------------------ *)
(* TagBase.clean, TagBase.delete and the admin hooks, as functions of   *)
(* the tables                                                          *)
(* ------------------------------------------------------------------ *)

\* clean that never looks for a stored tag: the instance keeps its pk
cleanNoReuse(T, pk, name, slug) == pk

(* TagBase.clean: a tag without pk takes the pk of the stored tag with   *)
(* the same (name, slug), if there is one.  0 stands for "no pk".        *)
clean(T, pk, name, slug) ==
    IF pk = 0 /\ \E t \in DOMAIN T : T[t].name = name /\ T[t].slug = slug
    THEN CHOOSE t \in DOMAIN T : T[t].name = name /\ T[t].slug = slug
    ELSE pk

(* The form's uniqueness validation of the unique slug field: a row with *)
(* the slug other than the instance's own (clean sets pk and             *)
(* _state.adding = False so that the reused row is not counted).         *)
validate_unique(T, pk, slug) == SlugFree(T, slug, pk)

\* item.delete() for the items of S
DeleteItems(I, S) == I \ S

\* Orphaned without the hasattr(content_object, 'sites') test
OrphanedAnyKind(I, pk, keep) ==
    { it \in ItemsOf(I, pk) : ObjSites(it[2]) \cap keep = {} }

\* the sweep of TagBase.delete: the tag's items whose object has `sites` and none of them in keep
Orphaned(I, pk, keep) ==
    { it \in ItemsOf(I, pk) : HasSites(it[2]) /\ ObjSites(it[2]) \cap keep = {} }

(* The loop of TagBase.delete over self.sites.all(): for each site that  *)
(* is not kept, sweep the items, then remove the site from the tag.      *)
RECURSIVE DeleteLoop(_, _, _, _, _)
DeleteLoop(T, I, pk, todo, keep) ==
    IF todo = {} THEN [tags |-> T, items |-> I]
    ELSE LET site == CHOOSE s \in todo : TRUE
         IN  IF site \notin keep
             THEN DeleteLoop([T EXCEPT ![pk].sites = @ \ {site}],
                             DeleteItems(I, Orphaned(I, pk, keep)),
                             pk, todo \ {site}, keep)
             ELSE DeleteLoop(T, I, pk, todo \ {site}, keep)

(* TagBase.delete(sites): remove the sites; delete the tag (the items    *)
(* cascade with it) if no site is left.                                  *)
delete(T, I, pk, sites) ==
    LET keep == T[pk].sites \ sites
    IN  IF keep # {}
        THEN DeleteLoop(T, I, pk, T[pk].sites, keep)
        ELSE [tags |-> WithoutRow(T, pk), items |-> I \ ItemsOf(I, pk)]

(* The else-branch of TagBase.save under Tag.save: write the row of a    *)
(* tag that has a slug (an UPDATE when pk is a stored row, an INSERT     *)
(* otherwise).  ok is FALSE when the unique constraint raises.           *)
save(T, pk, name, slug) ==
    IF ~SlugFree(T, slug, pk) THEN [ok |-> FALSE, tags |-> T]
    ELSE [ok |-> TRUE,
          tags |-> WithRow(T, pk, TagRow(name, slug,
                                         IF pk \in DOMAIN T THEN T[pk].sites ELSE {}))]

\* the re-tagging of one item of the original tag in a split
Retag(I, it, new, new_sites) ==
    IF HasSites(it[2])
    THEN LET afterDelete == IF ObjSites(it[2]) \ new_sites = {} THEN I \ {it} ELSE I
         IN  IF ObjSites(it[2]) \cap new_sites # {}
             THEN afterDelete \cup {<<new, it[2]>>}
             ELSE afterDelete
    ELSE I

RECURSIVE RetagAll(_, _, _, _)
RetagAll(I, todo, new, new_sites) ==
    IF todo = {} THEN I
    ELSE LET it == CHOOSE x \in todo : TRUE
         IN  RetagAll(Retag(I, it, new, new_sites), todo \ {it}, new, new_sites)

\* OnNoOtherSite with any() in the place of all()
OnSomeNewSite(obj_sites, new_sites) == \E s \in obj_sites : s \in new_sites

\* all(s in new_sites for s in obj_sites)
OnNoOtherSite(obj_sites, new_sites) == \A s \in obj_sites : s \in new_sites

(* TagAdmin.save_form followed by save_model's obj.save().  pk is the pk  *)
(* of form.instance (0: none), name and slug the form's values, new_sites *)
(* the form's sites, nid the pk the next INSERT gets.  The result names   *)
(* the branch taken, the instance the form ends with, and the tables.     *)
save_form(T, I, nid, pk, name, slug, new_sites) ==
    IF pk # 0 /\ pk \in DOMAIN T /\ (name # T[pk].name \/ slug # T[pk].slug)
    THEN IF OnNoOtherSite(T[pk].sites, new_sites)
         THEN LET s == save(T, pk, name, slug)
              IN  [branch |-> "inplace", ok |-> s.ok, obj |-> pk,
                   tags |-> s.tags, items |-> I, nextId |-> nid]
         ELSE LET s == save(T, nid, name, slug)
              IN  IF ~s.ok
                  THEN [branch |-> "split", ok |-> FALSE, obj |-> pk,
                        tags |-> T, items |-> I, nextId |-> nid]
                  ELSE [branch |-> "split", ok |-> TRUE, obj |-> nid,
                        tags |-> [s.tags EXCEPT ![pk].sites = @ \ new_sites,
                                                ![nid].sites = new_sites],
                        items |-> RetagAll(I, ItemsOf(I, pk), nid, new_sites),
                        nextId |-> nid + 1]
    ELSE LET target == IF pk = 0 THEN nid ELSE pk
             s == save(T, target, name, slug)
         IN  [branch |-> IF pk = 0 THEN "create" ELSE "plain", ok |-> s.ok,
              obj |-> target, tags |-> s.tags, items |-> I,
              nextId |-> IF pk = 0 /\ s.ok THEN nid + 1 ELSE nid]

\* SitesToRemove without the test `s in user_sites`
SitesToRemoveAnySite(original, user_sites, new_sites) ==
    { s \in original : s \notin new_sites }

\* SitesToAdd with the test inverted: the sites the tag is already on
SitesToAddKnown(original, new_sites) == { s \in new_sites : s \in original }

\* sites_to_remove of save_related
SitesToRemove(original, user_sites, new_sites) ==
    { s \in original : s \in user_sites /\ s \notin new_sites }

\* sites_to_add of save_related
SitesToAdd(original, new_sites) == { s \in new_sites : s \notin original }

(* TagAdmin.save_related: add the new sites to form.instance; when       *)
(* editing, delete() the sites the user removed.                         *)
save_related(T, I, obj, user_sites, new_sites, change) ==
    LET original == T[obj].sites
        added    == [T EXCEPT ![obj].sites = @ \cup SitesToAdd(original, new_sites)]
    IN  IF change
        THEN delete(added, I, obj, SitesToRemove(original, user_sites, new_sites))
        ELSE [tags |-> added, items |-> I]

(* ------------------------------------------------------------------ *)
(* The admin requests                                                  *)
(* ------------------------------------------------------------------ *)

(* req describes the admin request in flight (phase "form": save_form    *)
(* and save_model are done, save_related is still to run) or the last    *)
(* one finished (phase "done"):                                          *)
(*   op      "add", "change" or "delete"                                 *)
(*   branch  "invalid" (the form was rejected), "create", "merge",       *)
(*           "plain", "inplace" or "split"                               *)
(*   ok      FALSE when the request ended with an IntegrityError         *)
(*   orig    the pk the request was about (0: a new tag)                 *)
(*   obj     the pk of form.instance after save_form                     *)
(*   name, slug, E, U   the form's name, slug, sites and the user's sites *)
(*   T       the sites of tag orig when the request began                *)
(*   R       the sites handed to TagBase.delete                          *)
(*   gone    the associations the request deleted                        *)
IdleReq ==
    [phase |-> "idle", op |-> "none", branch |-> "none", ok |-> TRUE, obj |-> 0,
     orig |-> 0, name |-> <<>>, slug |-> <<>>, E |-> {}, U |-> {}, T |-> {}, R |-> {},
     gone |-> {}]

\* the users' site sets: user.get_sites()
UserSites == SUBSET Tenants \ {{}}

(* get_site_queryset: the form offers the user's sites, so the sites of  *)
(* the form are among them.                                              *)
FormSites(user_sites) == SUBSET user_sites

(* The admin runs a request inside one transaction                      *)
(* (transaction.commit_on_success).  Spec and SpecAll take the admin     *)
(* requests one at a time: a request begins only when none is in flight. *)
(* SpecMerge below interleaves them.                                     *)
NoRequestInFlight == req.phase = "idle"

(* The first half of an admin request on the form's instance pk0 (after  *)
(* clean): validation, save_form, save_model.  A rejected form and an    *)
(* IntegrityError leave the tables as they were (the request's           *)
(* transaction is rolled back).                                          *)
FormStep(op, orig, pk0, name, slug, E, U) ==
    LET r == save_form(tags, items, nextId, pk0, name, slug, E)
        T0 == IF pk0 # 0 THEN tags[pk0].sites ELSE {}
        info == [phase |-> "done", op |-> op, branch |-> r.branch, ok |-> r.ok,
                 obj |-> r.obj, orig |-> orig, name |-> name, slug |-> slug,
                 E |-> E, U |-> U, T |-> T0, R |-> {}, gone |-> {}]
    IN  IF ~validate_unique(tags, pk0, slug)
        THEN /\ req' = [info EXCEPT !.branch = "invalid", !.ok = TRUE, !.obj = pk0]
             /\ UNCHANGED dbvars
        ELSE /\ r.nextId <= MaxId + 1 \/ r.nextId = nextId
             /\ IF r.ok
                THEN /\ tags' = r.tags
                     /\ items' = r.items
                     /\ nextId' = r.nextId
                     /\ req' = [info EXCEPT !.phase = "form",
                                  !.branch = IF op = "add" /\ pk0 # 0 THEN "merge" ELSE r.branch,
                                  !.gone = items \ r.items]
                ELSE /\ req' = info
                     /\ UNCHANGED dbvars

(* add_view: the form of a new tag is validated (clean), saved          *)
(* (save_form, save_model); save_related follows as AdminRelated.        *)
AdminAdd(name, slug, E, U) ==
    /\ NoRequestInFlight
    /\ E \in FormSites(U)
    /\ FormStep("add", 0, clean(tags, 0, name, slug), name, slug, E, U)
    /\ UNCHANGED writervars

\* change_view on the stored tag pk
AdminChange(pk, name, slug, E, U) ==
    /\ NoRequestInFlight
    /\ pk \in DOMAIN tags
    /\ E \in FormSites(U)
    /\ FormStep("change", pk, clean(tags, pk, name, slug), name, slug, E, U)
    /\ UNCHANGED writervars

(* save_related of the request in flight.  T becomes the sites of the   *)
(* instance when delete() is called and R the sites handed to it.        *)
AdminRelated ==
    /\ req.phase = "form"
    /\ LET r == save_related(tags, items, req.obj, req.U, req.E, req.op = "change")
       IN  /\ tags' = r.tags
           /\ items' = r.items
           /\ req' = [req EXCEPT !.phase = "done",
                        !.T = tags[req.obj].sites \cup req.E,
                        !.R = IF req.op = "change"
                              THEN SitesToRemove(tags[req.obj].sites, req.U, req.E)
                              ELSE {},
                        !.gone = items \ r.items]
    /\ UNCHANGED <<nextId, pc, wname, wslug, wi, wpk>>

\* delete_model (and delete_selected, tag by tag): obj.delete(request.user.get_sites())
AdminDelete(pk, U) ==
    /\ NoRequestInFlight
    /\ pk \in DOMAIN tags
    /\ LET r == delete(tags, items, pk, U)
       IN  /\ tags' = r.tags
           /\ items' = r.items
           /\ req' = [IdleReq EXCEPT !.phase = "done", !.op = "delete", !.obj = pk,
                        !.orig = pk, !.U = U, !.T = tags[pk].sites, !.R = U,
                        !.gone = items \ r.items]
    /\ UNCHANGED <<nextId, pc, wname, wslug, wi, wpk>>

\* the response of a finished request is sent; the next request can begin
AdminReturn ==
    /\ req.phase = "done"
    /\ req' = IdleReq
    /\ UNCHANGED <<tags, items, nextId, pc, wname, wslug, wi, wpk>>

(* An object is tagged (a TaggedItem row is created) by a request       *)
(* outside the admin of tags.                                            *)
TagObject(o, pk) ==
    /\ NoRequestInFlight
    /\ pk \in DOMAIN tags
    /\ <<pk, o>> \notin items
    /\ Cardinality(items) < MaxItems
    /\ items' = items \cup {<<pk, o>>}
    /\ UNCHANGED <<tags, nextId, pc, wname, wslug, wi, wpk, req>>

Init ==
    /\ tags = <<>>
    /\ items = {}
    /\ nextId = 1
    /\ pc = [w \in Writers |-> "idle"]
    /\ wname = [w \in Writers |-> <<>>]
    /\ wslug = [w \in Writers |-> <<>>]
    /\ wi = [w \in Writers |-> 0]
    /\ wpk = [w \in Writers |-> 0]
    /\ req = IdleReq

(* The admin of tags and the tagging of objects. *)
Next ==
    \/ \E n \in FormNames, s \in FormSlugs, U \in UserSites, E \in SUBSET Tenants :
           AdminAdd(n, s, E, U)
    \/ \E pk \in DOMAIN tags, n \in FormNames, s \in FormSlugs,
          U \in UserSites, E \in SUBSET Tenants : AdminChange(pk, n, s, E, U)
    \/ AdminRelated
    \/ AdminReturn
    \/ \E pk \in DOMAIN tags, U \in UserSites : AdminDelete(pk, U)
    \/ \E o \in Objects, pk \in DOMAIN tags : TagObject(o, pk)

Spec == Init /\ [][Next]_vars

(* The admin of tags by a user of every site and the programmatic       *)
(* writers, whose inserts fall between the admin's transactions; no      *)
(* object is tagged.                                                     *)
AllFormSites == { {"A"}, {"A", "B"} }

NextAll ==
    \/ \E w \in Writers, n \in WriterNames : NoRequestInFlight /\ StartSave(w, n)
    \/ \E w \in Writers : NoRequestInFlight /\ TrySave(w)
    \/ \E n \in FormNames, s \in FormSlugs, E \in AllFormSites : AdminAdd(n, s, E, Tenants)
    \/ \E pk \in DOMAIN tags, n \in FormNames, s \in FormSlugs, E \in AllFormSites :
           AdminChange(pk, n, s, E, Tenants)
    \/ AdminRelated
    \/ AdminReturn
    \/ \E pk \in DOMAIN tags : AdminDelete(pk, Tenants)

SpecAll == Init /\ [][NextAll]_vars

(* The writers alone.  The table starts empty or with one row that the  *)
(* admin has added, so that the base slug or its first suffixed          *)
(* candidate can be taken before any writer runs.                        *)
AllocNames == WriterNames \cup { <<"r","e","d","_","1">> }

StoredBefore ==
    { <<>>,
      <<TagRow(<<"R","e","d">>, <<"r","e","d">>, {"A"})>>,
      <<TagRow(<<"a",":","b">>, <<"r","e","d","_","1">>, {"A", "B"})>> }

InitAlloc ==
    /\ tags \in StoredBefore
    /\ items = {}
    /\ nextId = Len(tags) + 1
    /\ pc = [w \in Writers |-> "idle"]
    /\ wname = [w \in Writers |-> <<>>]
    /\ wslug = [w \in Writers |-> <<>>]
    /\ wi = [w \in Writers |-> 0]
    /\ wpk = [w \in Writers |-> 0]
    /\ req = IdleReq

(* Concurrent writers: their turns of the loop interleave freely. *)
NextAlloc ==
    \/ \E w \in Writers, n \in AllocNames : StartSave(w, n)
    \/ \E w \in Writers : TrySave(w)

SpecAlloc == InitAlloc /\ [][NextAlloc]_vars

(* A writer inside save() is a running request: it takes its next turn. *)
SpecAllocFair == SpecAlloc /\ \A w \in Writers : WF_vars(TrySave(w))

(* Writers one after another. *)
(* ------------------------------------------------------------------ *)
(* Concurrent add requests                                             *)
(* ------------------------------------------------------------------ *)

\* the tenant of the user (and of the form) of request w
ReqSite(w) == IF w = 1 THEN "A" ELSE "B"

(* add_view of request w, first half: the form is validated.  clean()    *)
(* looks for a stored tag with the form's (name, slug) among the         *)
(* committed rows and takes its pk; the uniqueness validation follows.   *)
(* Nothing is written.                                                   *)
AddCheck(w, name, slug) ==
    /\ pc[w] = "idle"
    /\ LET pk0 == clean(tags, 0, name, slug)
       IN  /\ wpk' = [wpk EXCEPT ![w] = pk0]
           /\ pc' = [pc EXCEPT ![w] = IF validate_unique(tags, pk0, slug)
                                      THEN "checked" ELSE "invalid"]
    /\ wname' = [wname EXCEPT ![w] = name]
    /\ wslug' = [wslug EXCEPT ![w] = slug]
    /\ UNCHANGED <<tags, items, nextId, wi, req>>

(* add_view of request w, second half: save_form, save_model and         *)
(* save_related, then the commit.  The writes of the transaction become  *)
(* visible together; an INSERT whose slug another transaction has        *)
(* inserted waits for that transaction and raises IntegrityError once    *)
(* it has committed, which rolls the request back.                       *)
AddWrite(w) ==
    /\ pc[w] = "checked"
    /\ LET r == save_form(tags, items, nextId, wpk[w], wname[w], wslug[w], {ReqSite(w)})
       IN  IF r.ok
           THEN LET rel == save_related(r.tags, r.items, r.obj,
                                        {ReqSite(w)}, {ReqSite(w)}, FALSE)
                IN  /\ tags' = rel.tags
                    /\ items' = rel.items
                    /\ nextId' = r.nextId
                    /\ wpk' = [wpk EXCEPT ![w] = r.obj]
                    /\ pc' = [pc EXCEPT ![w] = "done"]
           ELSE /\ pc' = [pc EXCEPT ![w] = "failed"]
                /\ UNCHANGED <<tags, items, nextId, wpk>>
    /\ UNCHANGED <<wname, wslug, wi, req>>

NextMerge ==
    \E w \in Writers :
        \/ \E name \in FormNames, slug \in FormSlugs : AddCheck(w, name, slug)
        \/ AddWrite(w)

(* the tables the requests find: empty, or one tag that an earlier add   *)
(* request of a user of tenant A has stored                              *)
AddedBefore ==
    {<<>>} \cup { [t \in {1} |-> TagRow(name, slug, {"A"})] :
                    name \in FormNames, slug \in FormSlugs }

InitMerge ==
    /\ tags \in AddedBefore
    /\ nextId = Len(tags) + 1
    /\ items = {}
    /\ pc = [w \in Writers |-> "idle"]
    /\ wname = [w \in Writers |-> <<>>]
    /\ wslug = [w \in Writers |-> <<>>]
    /\ wi = [w \in Writers |-> 0]
    /\ wpk = [w \in Writers |-> 0]
    /\ req = IdleReq

(* Each user sends one add request; the requests run concurrently. *)
SpecMerge == InitMerge /\ [][NextMerge]_vars

(* The writers on a crowded table: the first k candidates of the base    *)
(* "red" are taken by tags stored before, for any k up to MaxTries.      *)
CrowdedTable(k) ==
    [t \in 1..k |-> TagRow(<<"R","e","d">>,
                           slugify(<<"R","e","d">>, IF t = 1 THEN <<>> ELSE <<t - 1>>),
                           {"A"})]

InitCrowd ==
    /\ \E k \in 0..MaxTries : tags = CrowdedTable(k) /\ nextId = k + 1
    /\ items = {}
    /\ pc = [w \in Writers |-> "idle"]
    /\ wname = [w \in Writers |-> <<>>]
    /\ wslug = [w \in Writers |-> <<>>]
    /\ wi = [w \in Writers |-> 0]
    /\ wpk = [w \in Writers |-> 0]
    /\ req = IdleReq

SpecCrowd == InitCrowd /\ [][NextAlloc]_vars

NextSeq ==
    \/ \E w \in Writers, n \in AllocNames : StartSaveAlone(w, n)
    \/ \E w \in Writers : TrySave(w)

SpecSeq == InitAlloc /\ [][NextSeq]_vars

(* ------------------------------------------------------------------ *)
(* Properties                                                          *)
(* ------------------------------------------------------------------ *)

Slugs(T) == { T[t].slug : t \in DOMAIN T }

(* C1: in every reachable state, whatever the interleaving of creations *)
(* (with or without a slug), in-place renames, splits, tenant additions *)
(* and removals, no two stored tags have the same slug.                 *)
C1_SlugUnique ==
    \A t1 \in DOMAIN tags, t2 \in DOMAIN tags : t1 # t2 => tags[t1].slug # tags[t2].slug

(* C1 witness: a writer had to retry because its slug was taken, an      *)
(* admin rename (in place or split) has gone through, and at least two  *)
(* tags are stored.                                                      *)
C1_Witness ==
    /\ \E w \in Writers : pc[w] = "done" /\ wi[w] > 1
    /\ req.phase = "done" /\ req.ok /\ req.branch \in {"inplace", "split"}
    /\ Cardinality(DOMAIN tags) >= 2

\* the writers whose save() has returned
Saved == { w \in Writers : pc[w] = "done" }

(* C2: concurrent writers whose names slugify to the same base: every   *)
(* writer that entered save() eventually returns from it (none fails,   *)
(* none retries forever), and the writers that have returned hold       *)
(* pairwise distinct slugs, each stored under the writer's pk.           *)
C2_AllSucceedDistinct ==
    /\ \A w \in Writers : (pc[w] = "try") ~> (pc[w] = "done")
    /\ [](\A v \in Saved, w \in Saved :
              /\ wpk[w] \in DOMAIN tags /\ tags[wpk[w]].slug = wslug[w]
              /\ v # w => wslug[v] # wslug[w])

(* C2 witness: two writers with the same base slug have both returned,  *)
(* one of them after a retry.                                            *)
C2_Witness ==
    \E v \in Saved, w \in Saved :
        /\ v # w
        /\ default_slugify(wname[v]) = default_slugify(wname[w])
        /\ wname[v] # wname[w]
        /\ wi[w] > 1
        /\ wslug[v] # wslug[w]

\* the n-th candidate of the retry protocol: base, base_1, base_2, ...
Candidate(name, n) ==
    IF n = 0 THEN default_slugify(name)
    ELSE default_slugify(name) \o <<"_">> \o Decimal(n)

(* C3: without concurrent writers, save() tries base, base_1, base_2,   *)
(* ... in that order: a failed turn had the candidate of its number,    *)
(* which was taken, and moves to the next one; the turn that stores the *)
(* tag is turn k+1 where candidates 0..k-1 are all taken and candidate  *)
(* k is not, and the tag is stored under candidate k.                    *)
C3_FirstFreeCandidate ==
    [][\A w \in Writers :
          /\ (pc[w] = "try" /\ pc'[w] = "try" /\ wi'[w] # wi[w]) =>
                /\ wslug[w] = Candidate(wname[w], wi[w])
                /\ wslug[w] \in Slugs(tags)
                /\ wslug'[w] = Candidate(wname[w], wi[w] + 1)
                /\ wi'[w] = wi[w] + 1
                /\ tags' = tags
          /\ (pc[w] = "try" /\ pc'[w] = "done") =>
                /\ wi'[w] = wi[w] + 1
                /\ \A j \in 0..(wi[w] - 1) : Candidate(wname[w], j) \in Slugs(tags)
                /\ Candidate(wname[w], wi[w]) \notin Slugs(tags)
                /\ wpk'[w] \notin DOMAIN tags
                /\ tags' = WithRow(tags, wpk'[w], tags'[wpk'[w]])
                /\ tags'[wpk'[w]].slug = Candidate(wname[w], wi[w])
                /\ tags'[wpk'[w]].name = wname[w]
      ]_vars

(* C3 witness: a writer returned on its third insert, base and base_1   *)
(* being taken, and holds base_2.                                        *)
C3_Witness ==
    \E w \in Saved :
        /\ wi[w] = 3
        /\ wslug[w] = default_slugify(wname[w]) \o <<"_", "2">>
        /\ tags[wpk[w]].slug = wslug[w]

(* ------------------------------------------------------------------ *)
(* The admin's requests, step by step                                  *)
(* ------------------------------------------------------------------ *)

\* this step is the validation, save_form and save_model of an add request
AddFormStep == req.phase = "idle" /\ req'.op = "add"

\* this step is the validation, save_form and save_model of a change request
ChangeFormStep == req.phase = "idle" /\ req'.op = "change"

(* this step is a change request that passed validation and whose form   *)
(* carries a name or a slug other than the stored one                    *)
RenameStep ==
    /\ ChangeFormStep
    /\ req'.branch # "invalid"
    /\ req'.name # tags[req'.orig].name \/ req'.slug # tags[req'.orig].slug

\* the stored tags with name n and slug s
TagsNamed(T, n, s) == { t \in DOMAIN T : T[t].name = n /\ T[t].slug = s }

\* every row of the Tag table other than pk is as it was
OtherTagsUnchanged(pk) ==
    \A t \in (DOMAIN tags \cup DOMAIN tags') \ {pk} :
        t \in DOMAIN tags /\ t \in DOMAIN tags' /\ tags'[t] = tags[t]

(* C4: merge convergence.  When a tag with name n and slug s is stored   *)
(* and an add request with the same n and s arrives for the sites E, the *)
(* form is accepted, its instance is the stored tag and no row is        *)
(* created; when save_related has run, that tag has the sites it had     *)
(* and E, its name and slug, every other tag and every association are   *)
(* unchanged, and it is the only tag with (n, s).                        *)
C4_MergeConvergence ==
    [][ /\ (AddFormStep /\ TagsNamed(tags, req'.name, req'.slug) # {})
           => /\ req'.phase = "form"
              /\ req'.branch = "merge"
              /\ TagsNamed(tags, req'.name, req'.slug) = {req'.obj}
              /\ tags' = tags
              /\ items' = items
              /\ nextId' = nextId
        /\ (req.phase = "form" /\ req.branch = "merge" /\ req'.phase = "done")
           => /\ DOMAIN tags' = DOMAIN tags
              /\ tags'[req.obj] = [tags[req.obj] EXCEPT !.sites = @ \cup req.E]
              /\ OtherTagsUnchanged(req.obj)
              /\ items' = items
              /\ TagsNamed(tags', req.name, req.slug) = {req.obj}
      ]_vars

\* a tag of site A was added again for site B: one row, on A and B
C4_Witness ==
    /\ req.phase = "done"
    /\ req.branch = "merge"
    /\ req.E = {"B"}
    /\ req.obj \in DOMAIN tags
    /\ tags[req.obj].sites = {"A", "B"}
    /\ TagsNamed(tags, req.name, req.slug) = {req.obj}
    /\ Cardinality(DOMAIN tags) = 1

(* C5: split correctness.  When an accepted change request carries a     *)
(* changed name or slug and sites E that do not include all the sites T  *)
(* of the tag, then after save_form the original tag is stored with its  *)
(* old name and slug on the sites T \ E (not empty), and another tag is  *)
(* stored with the new name and slug on exactly the sites E.  Stated for *)
(* forms that name at least one of the tag's sites.                      *)
C5_SplitCorrect ==
    [][ (RenameStep /\ ~(req'.T \subseteq req'.E) /\ req'.E \cap req'.T # {})
        => /\ req'.orig \in DOMAIN tags'
           /\ tags'[req'.orig].name = tags[req'.orig].name
           /\ tags'[req'.orig].slug = tags[req'.orig].slug
           /\ tags'[req'.orig].sites = req'.T \ req'.E
           /\ req'.T \ req'.E # {}
           /\ \E t \in DOMAIN tags' \ {req'.orig} :
                  /\ tags'[t].name = req'.name
                  /\ tags'[t].slug = req'.slug
                  /\ tags'[t].sites = req'.E
      ]_vars

SplitStep == RenameStep /\ req'.branch = "split" /\ req'.ok

(* C7: association migration of a split.  For every association of the  *)
(* original tag whose object has sites O: the object is associated with  *)
(* the new tag afterwards exactly when O overlaps the new tag's sites E, *)
(* and the original association is deleted exactly when O does not       *)
(* overlap the sites left on the original tag.  The association of an    *)
(* object without sites stays and is not copied.  Stated for splits      *)
(* whose form names at least one of the tag's sites and for objects that *)
(* were on one of the tag's sites before the split.                      *)
C7_SplitMigration ==
    [][ (SplitStep /\ req'.E \cap req'.T # {})
        => \A it \in { x \in ItemsOf(items, req'.orig) :
                           HasSites(x[2]) => ObjSites(x[2]) \cap req'.T # {} } :
               IF HasSites(it[2])
               THEN /\ (<<req'.obj, it[2]>> \in items') <=> (ObjSites(it[2]) \cap req'.E # {})
                    /\ (it \notin items')
                          <=> (ObjSites(it[2]) \cap tags'[req'.orig].sites = {})
               ELSE /\ it \in items'
                    /\ <<req'.obj, it[2]>> \notin items'
      ]_vars

(* C8: frame of a split.  Every association of the original tag whose    *)
(* object has sites that do not overlap the new tag's sites E (an object *)
(* on no site included) stays on the original tag, and the object is not *)
(* associated with the new tag.  Stated for splits whose form names at  *)
(* least one of the tag's sites.                                         *)
C8_NoOverlapUntouched ==
    [][ (SplitStep /\ req'.E \cap req'.T # {})
        => \A it \in ItemsOf(items, req'.orig) :
               (HasSites(it[2]) /\ ObjSites(it[2]) \cap req'.E = {})
               => /\ it \in items'
                  /\ <<req'.obj, it[2]>> \notin items'
      ]_vars

(* this step applies TagBase.delete: a delete request, or save_related   *)
(* of a change request.  In the state after it req.obj is the tag,       *)
(* req.T the sites it had when delete was called and req.R the sites     *)
(* handed to delete.                                                     *)
RemoveStep ==
    /\ req'.phase = "done"
    /\ \/ req.phase = "idle" /\ req'.op = "delete"
       \/ req.phase = "form" /\ req.op = "change"

\* the associations of tag pk whose object has sites, none of them among rem
NoOverlapWith(I, pk, rem) ==
    { it \in I : it[1] = pk /\ HasSites(it[2]) /\ ObjSites(it[2]) \cap rem = {} }

(* C9 as claimed: removing the sites R from a tag on the sites T deletes *)
(* the tag and its associations when T \ R is empty; otherwise the tag   *)
(* stays on exactly T \ R, exactly the associations whose object has     *)
(* sites that do not overlap T \ R are deleted, and every other          *)
(* association and every other tag is unchanged.                         *)
C9_RemoveTenants ==
    [][ RemoveStep
        => IF req'.T \ req'.R = {}
           THEN /\ req'.obj \notin DOMAIN tags'
                /\ ItemsOf(items', req'.obj) = {}
           ELSE /\ req'.obj \in DOMAIN tags'
                /\ tags'[req'.obj].sites = req'.T \ req'.R
                /\ items' = items \ NoOverlapWith(items, req'.obj, req'.T \ req'.R)
                /\ OtherTagsUnchanged(req'.obj)
      ]_vars

(* C9 amended: removing the sites R from a tag on the sites T deletes    *)
(* the tag and exactly its associations when T \ R is empty.  Otherwise  *)
(* the tag stays, with its name and slug, on exactly T \ R; when R holds *)
(* a site of T, exactly the associations whose object has sites that do  *)
(* not overlap T \ R are deleted, and when R holds no site of T no       *)
(* association is deleted.  Every other tag is unchanged.                *)
C9_RemoveTenantsSweepOnRemoval ==
    [][ RemoveStep
        => /\ OtherTagsUnchanged(req'.obj)
           /\ IF req'.T \ req'.R = {}
              THEN /\ req'.obj \notin DOMAIN tags'
                   /\ items' = items \ ItemsOf(items, req'.obj)
              ELSE /\ req'.obj \in DOMAIN tags'
                   /\ tags'[req'.obj] = [tags[req'.obj] EXCEPT !.sites = req'.T \ req'.R]
                   /\ items' = IF req'.R \cap req'.T # {}
                               THEN items \ NoOverlapWith(items, req'.obj, req'.T \ req'.R)
                               ELSE items
      ]_vars

(* site A was removed from a tag on A and B: the association of the      *)
(* object on A alone is gone, that of the object without sites stays     *)
C9_Witness ==
    /\ req.phase = "done"
    /\ req.op = "delete"
    /\ req.T = {"A", "B"}
    /\ req.R = {"A"}
    /\ req.obj \in DOMAIN tags
    /\ tags[req.obj].sites = {"B"}
    /\ req.gone = {<<req.obj, "oA">>}
    /\ <<req.obj, "oPlain">> \in items

(* C10: removal is idempotent.  Removing sites none of which is on the   *)
(* tag leaves the tag stored with its name, slug and sites, and leaves   *)
(* every association and every other tag as it was; and after any        *)
(* removal that leaves the tag stored, the same removal again changes    *)
(* nothing.                                                              *)
C10_RemovalIdempotent ==
    [][ RemoveStep
        => /\ (req'.R \cap req'.T = {})
              => /\ req'.obj \in DOMAIN tags'
                 /\ tags'[req'.obj] = [tags[req'.obj] EXCEPT !.sites = req'.T]
                 /\ OtherTagsUnchanged(req'.obj)
                 /\ items' = items
           /\ (req'.obj \in DOMAIN tags')
              => delete(tags', items', req'.obj, req'.R) = [tags |-> tags', items |-> items']
      ]_vars

(* C11: sites outside the user's sites are never removed.  For a delete  *)
(* request and for save_related of a change request by a user with the   *)
(* sites U on a tag that is on the sites T: the request goes through,    *)
(* the sites T \ U are on the tag afterwards, and the tag is deleted     *)
(* only if T is within U.  The form step of a change request leaves the  *)
(* sites outside U on the tag it edits, too.                             *)
C11_InaccessibleKept ==
    [][ /\ RemoveStep
           => /\ req'.ok
              /\ (req'.T \ req'.U # {})
                 => /\ req'.obj \in DOMAIN tags'
                    /\ (req'.T \ req'.U) \subseteq tags'[req'.obj].sites
              /\ (req'.obj \notin DOMAIN tags') => (req'.T \subseteq req'.U)
        /\ ChangeFormStep
           => /\ req'.orig \in DOMAIN tags'
              /\ (tags[req'.orig].sites \ req'.U) \subseteq tags'[req'.orig].sites
      ]_vars

(* a user of site A alone emptied the form of a tag on A and B: site A   *)
(* is removed, site B stays                                              *)
C11_Witness ==
    /\ req.phase = "done"
    /\ req.op = "change"
    /\ req.U = {"A"}
    /\ req.E = {}
    /\ req.T = {"A", "B"}
    /\ req.R = {"A"}
    /\ req.obj \in DOMAIN tags
    /\ tags[req.obj].sites = {"B"}

(* this step is save_related adding sites: that of an add request, or    *)
(* that of a change request which adds a site and removes none           *)
AddTenantsStep ==
    /\ req.phase = "form"
    /\ req'.phase = "done"
    /\ \/ req.op = "add"
       \/ /\ req.op = "change"
          /\ req'.R = {}
          /\ req.E \ tags[req.obj].sites # {}

(* C12: adding sites is a set union.  After save_related has added the   *)
(* sites E of the form to a tag, the tag is on the sites it was on and   *)
(* on E, with its pk, name and slug; no tag is created or deleted, every *)
(* other tag is as it was, and the associations are as they were.        *)
C12_AddTenantsIsUnion ==
    [][ AddTenantsStep
        => /\ DOMAIN tags' = DOMAIN tags
           /\ tags'[req.obj] = [tags[req.obj] EXCEPT !.sites = @ \cup req.E]
           /\ OtherTagsUnchanged(req.obj)
           /\ items' = items
           /\ nextId' = nextId
      ]_vars

\* a change request added site B to a tagged tag of site A
C12_Witness ==
    /\ req.phase = "done"
    /\ req.op = "change"
    /\ req.branch = "plain"
    /\ req.E = {"A", "B"}
    /\ req.R = {}
    /\ req.obj \in DOMAIN tags
    /\ tags[req.obj].sites = {"A", "B"}
    /\ ItemsOf(items, req.obj) # {}
    /\ Cardinality(DOMAIN tags) = 2

(* the associations of tag pk, in the state after the step, whose object *)
(* was on one of the sites `before` and is on none of the tag's sites    *)
(* now: the associations orphaned by the removal of sites from the tag   *)
OrphanedByRemoval(pk, before) ==
    { it \in ItemsOf(items', pk) :
          /\ HasSites(it[2])
          /\ ObjSites(it[2]) \cap before # {}
          /\ ObjSites(it[2]) \cap tags'[pk].sites = {} }

(* C13: the requests are atomic.  A request that fails leaves the Tag    *)
(* and TaggedItem tables as they were; and in the state a request        *)
(* commits, a tag from which it removed sites (by TagBase.delete or by   *)
(* a split) has no association left that the removal orphaned.           *)
C13_Atomic ==
    [][ /\ (req.phase = "idle" /\ req'.phase = "done" /\ ~req'.ok)
           => UNCHANGED dbvars
        /\ (RemoveStep /\ req'.obj \in DOMAIN tags')
           => OrphanedByRemoval(req'.obj, req'.T) = {}
        /\ (req.phase = "form" /\ req'.phase = "done" /\ req.branch = "split")
           => OrphanedByRemoval(req.orig, req.T) = {}
      ]_vars

\* a name with two colons
TwoColons == <<"a", ":", "b", ":", "c">>

(* C14: namespace derivation.  For every stored tag whose name has a     *)
(* ":", the name is the namespace, a ":" and the display name, and the   *)
(* namespace has no ":" (so it is the part before the first one); for    *)
(* every stored tag whose name has none, the namespace is empty and the  *)
(* display name is the name.  For the name "a:b:c" the namespace is "a"  *)
(* and the display name "b:c".                                           *)
C14_NamespaceDerived ==
    /\ \A t \in DOMAIN tags :
           IF \E k \in 1..Len(tags[t].name) : tags[t].name[k] = ":"
           THEN /\ tags[t].name
                     = tags[t].namespace \o <<":">> \o strip_namespace(tags[t].name)
                /\ \A k \in 1..Len(tags[t].namespace) : tags[t].namespace[k] # ":"
           ELSE /\ tags[t].namespace = <<>>
                /\ strip_namespace(tags[t].name) = tags[t].name
    /\ TagRow(TwoColons, <<"x">>, {}).namespace = <<"a">>
    /\ strip_namespace(TwoColons) = <<"b", ":", "c">>

\* a tag was renamed in place to "a:b" and is stored with the namespace "a"
C14_Witness ==
    /\ req.phase = "form"
    /\ req.branch = "inplace"
    /\ tags[req.obj].name = <<"a", ":", "b">>
    /\ tags[req.obj].namespace = <<"a">>
    /\ strip_namespace(tags[req.obj].name) = <<"b">>
    /\ \E t \in DOMAIN tags : tags[t].name = <<"R", "e", "d">> /\ tags[t].namespace = <<>>

(* C15: tags_for is scoped to the caller's site.  For a caller on any    *)
(* site, every tag that tags_for returns for a model class or for an     *)
(* object is associated with an object of that class (with that object)  *)
(* and is on the caller's site.  Stated for the returned tags that are  *)
(* on some site.                                                         *)
C15_TagsForScoped ==
    \A site \in Tenants, o \in Objects :
      \A instance \in {o, "none"} :
        \A t \in { x \in tags_for(tags, items, KindOf(o), instance) : tags[x].sites # {} } :
            /\ \E it \in ItemsOf(items, t) :
                   /\ KindOf(it[2]) = KindOf(o)
                   /\ instance = "none" \/ it[2] = instance
            /\ site \in tags[t].sites

(* C16: tenant sets are never empty.  In every state a request or a      *)
(* save() commits, every stored tag is on at least one site; and a tag   *)
(* leaves the table exactly in a step of TagBase.delete that leaves it   *)
(* no site.                                                              *)
C16_TenantSetNonEmpty ==
    [][ /\ (req'.phase # "form") => \A t \in DOMAIN tags' : tags'[t].sites # {}
        /\ \A t \in DOMAIN tags \ DOMAIN tags' :
               RemoveStep /\ t = req'.obj /\ req'.T \ req'.R = {}
        /\ (RemoveStep /\ req'.T \ req'.R = {}) => req'.obj \notin DOMAIN tags'
      ]_vars

(* in the tables T and I every association of an object that has sites   *)
(* links it to a tag that is on one of them                              *)
NoStaleIn(T, I) ==
    \A it \in I :
        (it[1] \in DOMAIN T /\ HasSites(it[2])) => ObjSites(it[2]) \cap T[it[1]].sites # {}

(* the tables the request begun by this step commits: those after        *)
(* save_related when the step is the form step of an add or a change     *)
CommittedByRequest ==
    IF req'.phase = "form"
    THEN save_related(tags', items', req'.obj, req'.U, req'.E, req'.op = "change")
    ELSE [tags |-> tags', items |-> items']

(* C17: no stale association.  When every association of an object with *)
(* sites links it to a tag on one of its sites, the same is true of the  *)
(* state that the next add, change or delete request commits.            *)
C17_NoStaleAssociation ==
    [][ (req.phase = "idle" /\ req'.phase # "idle" /\ NoStaleIn(tags, items))
        => NoStaleIn(CommittedByRequest.tags, CommittedByRequest.items)
      ]_vars

(* C18: the split resolves its new tag.  When a change request carries a *)
(* changed name or slug, sites E that include some but not all of the    *)
(* tag's sites, and a slug that a stored tag holds (the edited tag       *)
(* included), the request is neither rejected nor fails; its instance is *)
(* the stored tag with exactly the new name and slug when there is one,  *)
(* and no row is created; otherwise it is a new row with the new name    *)
(* under a slug that no other tag holds.                                 *)
C18_SplitResolves ==
    [][ ( /\ ChangeFormStep
          /\ req'.name # tags[req'.orig].name \/ req'.slug # tags[req'.orig].slug
          /\ ~(req'.T \subseteq req'.E)
          /\ req'.E \cap req'.T # {}
          /\ \E t \in DOMAIN tags : tags[t].slug = req'.slug )
        => /\ req'.branch # "invalid"
           /\ req'.ok
           /\ IF TagsNamed(tags, req'.name, req'.slug) # {}
              THEN /\ req'.obj \in TagsNamed(tags, req'.name, req'.slug)
                   /\ DOMAIN tags' = DOMAIN tags
              ELSE /\ req'.obj \notin DOMAIN tags
                   /\ req'.obj \in DOMAIN tags'
                   /\ tags'[req'.obj].name = req'.name
                   /\ \A t \in DOMAIN tags' \ {req'.obj} :
                          tags'[t].slug # tags'[req'.obj].slug
      ]_vars

(* C19: the retry loop is capped.  A writer inside save() whose failed   *)
(* insert attempts have exceeded the retry bound makes no further        *)
(* attempt.                                                              *)
C19_RetryCapped ==
    [][ \A w \in Writers :
            (pc[w] = "try" /\ wi[w] > RetryCap) => wi'[w] = wi[w]
      ]_vars

(* C20: merge convergence under concurrency.  When two add requests of   *)
(* different tenants with the same (name, slug) have both ended, in any  *)
(* interleaving of their check and write steps, neither has failed and   *)
(* exactly one tag has that name, with both tenants among its sites.     *)
C20_ConcurrentMerge ==
    \A v \in Writers : \A w \in Writers \ {v} :
        ( /\ pc[v] \in {"done", "failed"}
          /\ pc[w] \in {"done", "failed"}
          /\ ReqSite(v) # ReqSite(w)
          /\ wname[v] = wname[w]
          /\ wslug[v] = wslug[w] )
        => /\ pc[v] = "done"
           /\ pc[w] = "done"
           /\ Cardinality({ t \in DOMAIN tags : tags[t].name = wname[v] }) = 1
           /\ \A t \in DOMAIN tags :
                  tags[t].name = wname[v] => {ReqSite(v), ReqSite(w)} \subseteq tags[t].sites

====
